---- MODULE Spec2Model ----
(***************************************************************************)
(* NinjaExa rate limiter (scripts/exa_rate_limiter.py).                    *)
(*                                                                         *)
(* The limiter keeps one persisted RateLimiterState in a JSON state file.  *)
(* check_rate_limit(), record_request() and get_rate_status() each read    *)
(* the clock once (time.time()), load the file, normalise the state        *)
(* (prune + reset-if-crossed) and, for the first two, write it back.       *)
(*                                                                         *)
(* Time is in whole seconds.  A delay is the real number                   *)
(*      sec * 2^(-frac/DecayPeriod)   seconds,  0 <= frac < DecayPeriod,   *)
(* held as the pair [sec, frac]; this is exact for the code's              *)
(* BASE * MULTIPLIER ** (effective_level - 1) with a fractional level.     *)
(***************************************************************************)
EXTENDS Integers, Sequences, FiniteSets, TLC

VARIABLES
    now,        \* last value returned by time.time()
    limits,     \* RATE_LIMIT_PER_* module globals (read from the environment)
    disabled,   \* RATE_LIMITING_DISABLED module global
    file,       \* content of STATE_FILE
    loaded,     \* what _load_state() returned to the last call that loaded
    mem,        \* the local `state` of the last call that loaded one, at its return
    ret,        \* what the last call returned
    hist,       \* history since the state was last fresh: records made, their spacing
    io,         \* what the last call did with STATE_FILE, and whether it raised
    client,     \* the client shell's call in progress (exa_common.py)
    cli,        \* the last run of the limiter's command line (main)
    threads,    \* dual mode: each thread's position and local state
    tally,      \* dual mode: record calls and network calls made so far
    keys        \* the API key: environment, cache file, config files

vars ==
    <<now, limits, disabled, file, loaded, mem, ret, hist, io, client, cli,
      threads, tally, keys>>

----------------------------------------------------------------------------
(* Configuration *)

\* defaults of NINJAEXA_RATE_PER_MIN / _10MIN / _HOUR / _DAY
DefaultLimits ==
    [per_minute |-> 15, per_10min |-> 60, per_hour |-> 200, per_day |-> 1000]

\* a small override of the same four environment variables
ScaledLimits ==
    [per_minute |-> 1, per_10min |-> 2, per_hour |-> 3, per_day |-> 4]

\* an override with NINJAEXA_RATE_PER_DAY below NINJAEXA_RATE_PER_HOUR
TightDayLimits ==
    [per_minute |-> 1, per_10min |-> 2, per_hour |-> 3, per_day |-> 2]

Configurations == {ScaledLimits, TightDayLimits}

BASE_PENALTY_SECONDS == 3
MAX_PENALTY_SECONDS == 600
PENALTY_MULTIPLIER == 2
PENALTY_DECAY_MINUTES == 10
\* BURST_WARNING_THRESHOLD = 1.5 = 3/2, BURST_DELAY_THRESHOLD = 2.0 = 2/1
BURST_WARNING_NUM == 3
BURST_WARNING_DEN == 2
BURST_DELAY_THRESHOLD == 2
PENALTY_LEVEL_CAP == 10
MINUTE_WINDOW == 60
TEN_MINUTE_WINDOW == 600
HOUR_WINDOW == 3600
DAY_WINDOW == 86400
GOOD_BEHAVIOR_SECONDS == 60
SAVED_TIMESTAMPS == 500

DecayPeriod == PENALTY_DECAY_MINUTES * 60

\* smallest integer x with BASE * 2^(x / DecayPeriod) >= MAX, i.e.
\* ceil(600 * log2(600 / 3)) = ceil(4586.31...)
CAP_EXPONENT == 4587

----------------------------------------------------------------------------
(* Bounds of the model *)

MaxCount == 5        \* record_request is not explored beyond this daily_count
BurstMax == 40       \* records of the burst scenario

\* the instants time.time() may return
Instants == {0, 60, 61, 600, 3600, 86400}
BurstInstants == {0, 1}

----------------------------------------------------------------------------
(* Helpers *)

Min(a, b) == IF a <= b THEN a ELSE b
Max(a, b) == IF a >= b THEN a ELSE b

RECURSIVE Pow(_, _)
Pow(b, e) == IF e <= 0 THEN 1 ELSE b * Pow(b, e - 1)

\* seq[-n:]
LastN(seq, n) ==
    IF Len(seq) <= n THEN seq ELSE SubSeq(seq, Len(seq) - n + 1, Len(seq))

\* dict.get(key, default)
Get(d, key, default) == IF key \in DOMAIN d THEN d[key] ELSE default

ZeroDelay == [sec |-> 0, frac |-> 0]
Seconds(n) == [sec |-> n, frac |-> 0]
Positive(d) == d.sec > 0

----------------------------------------------------------------------------
(* RateLimiterState and its persistence *)

RateLimiterState ==
    [timestamps |-> <<>>, penalty_level |-> 0, last_violation_time |-> 0,
     last_request_time |-> 0, hourly_count |-> 0, hourly_reset |-> 0,
     daily_count |-> 0, daily_reset |-> 0, version |-> 1]

\* variant: the first 500 timestamps are kept
to_dict_oldest(s) ==
    [version |-> s.version,
     timestamps |-> SubSeq(s.timestamps, 1,
                           Min(Len(s.timestamps), SAVED_TIMESTAMPS)),
     penalty_level |-> s.penalty_level,
     last_violation_time |-> s.last_violation_time,
     last_request_time |-> s.last_request_time,
     hourly_count |-> s.hourly_count,
     hourly_reset |-> s.hourly_reset,
     daily_count |-> s.daily_count,
     daily_reset |-> s.daily_reset]

to_dict(s) ==
    [version |-> s.version,
     timestamps |-> LastN(s.timestamps, SAVED_TIMESTAMPS),
     penalty_level |-> s.penalty_level,
     last_violation_time |-> s.last_violation_time,
     last_request_time |-> s.last_request_time,
     hourly_count |-> s.hourly_count,
     hourly_reset |-> s.hourly_reset,
     daily_count |-> s.daily_count,
     daily_reset |-> s.daily_reset]

from_dict(data) ==
    [timestamps |-> Get(data, "timestamps", <<>>),
     penalty_level |-> Get(data, "penalty_level", 0),
     last_violation_time |-> Get(data, "last_violation_time", 0),
     last_request_time |-> Get(data, "last_request_time", 0),
     hourly_count |-> Get(data, "hourly_count", 0),
     hourly_reset |-> Get(data, "hourly_reset", 0),
     daily_count |-> Get(data, "daily_count", 0),
     daily_reset |-> Get(data, "daily_reset", 0),
     version |-> Get(data, "version", 1)]

NoFile == [kind |-> "absent", data |-> to_dict(RateLimiterState)]

\* What STATE_FILE can hold:
\*   "absent"      no file
\*   "object"      a JSON object written by _save_state (its fields in data)
\*   "malformed"   text that is not JSON      -> json.JSONDecodeError
\*   "empty"       no text at all             -> json.JSONDecodeError
\*   "unreadable"  open() fails               -> IOError
\*   "not_object"  JSON that is no object, e.g. []  -> data.get: AttributeError
\*   "bad_fields"  an object with "timestamps": null -> TypeError / AttributeError
\*                 at the first use of state.timestamps
FaultKinds == {"malformed", "empty", "unreadable", "not_object", "bad_fields"}

\* variant: a JSON decoding error escapes as well
state_raises_undecodable(f) ==
    f.kind \in {"not_object", "bad_fields", "malformed", "empty"}

\* the file makes _load_state, or the first use of what it returns, raise an
\* exception that `except (json.JSONDecodeError, IOError, KeyError)` lets through
state_raises(f) == f.kind \in {"not_object", "bad_fields"}

load_state(f) ==
    IF f.kind = "object" THEN from_dict(f.data) ELSE RateLimiterState

save_state(s) == [kind |-> "object", data |-> to_dict(s)]

----------------------------------------------------------------------------
(* Rate limiting logic *)

count_requests_in_window(timestamps, window_seconds, t) ==
    LET cutoff == t - window_seconds
    IN Cardinality({i \in 1..Len(timestamps) : timestamps[i] > cutoff})

calculate_current_penalty(s, t) ==
    IF s.penalty_level = 0 THEN ZeroDelay
    ELSE
      LET time_since_violation == t - s.last_violation_time
          \* effective_level * DecayPeriod
          effective == s.penalty_level * DecayPeriod - time_since_violation
          \* (effective_level - 1) * DecayPeriod
          x == effective - DecayPeriod
          k == IF x <= 0 THEN 0 ELSE (x + DecayPeriod - 1) \div DecayPeriod
      IN IF effective <= 0 THEN ZeroDelay
         ELSE IF x >= CAP_EXPONENT THEN Seconds(MAX_PENALTY_SECONDS)
         ELSE [sec |-> BASE_PENALTY_SECONDS * Pow(PENALTY_MULTIPLIER, k),
               frac |-> k * DecayPeriod - x]

\* variant: a window is crossed only strictly after its reset instant
reset_counters_after(s, t) ==
    LET h == IF t > s.hourly_reset
             THEN [s EXCEPT !.hourly_count = 0, !.hourly_reset = t + HOUR_WINDOW]
             ELSE s
    IN IF t > h.daily_reset
       THEN [h EXCEPT !.daily_count = 0, !.daily_reset = t + DAY_WINDOW]
       ELSE h

\* variant: the daily marker advances by one hour
reset_counters_short_day(s, t) ==
    LET h == IF t >= s.hourly_reset
             THEN [s EXCEPT !.hourly_count = 0, !.hourly_reset = t + HOUR_WINDOW]
             ELSE s
    IN IF t >= h.daily_reset
       THEN [h EXCEPT !.daily_count = 0, !.daily_reset = t + HOUR_WINDOW]
       ELSE h

reset_counters_if_needed(s, t) ==
    LET h == IF t >= s.hourly_reset
             THEN [s EXCEPT !.hourly_count = 0, !.hourly_reset = t + HOUR_WINDOW]
             ELSE s
    IN IF t >= h.daily_reset
       THEN [h EXCEPT !.daily_count = 0, !.daily_reset = t + DAY_WINDOW]
       ELSE h

\* variant: the cutoff is one day back
prune_day_old_timestamps(timestamps, t) ==
    LET cutoff == t - DAY_WINDOW
        keep(ts) == ts > cutoff
    IN SelectSeq(timestamps, keep)

prune_old_timestamps(timestamps, t) ==
    LET cutoff == t - HOUR_WINDOW
        keep(ts) == ts > cutoff
    IN SelectSeq(timestamps, keep)

\* variant: the threshold itself does not count
RatioAbove(req, limit, num, den) ==
    limit > 0 /\ req * den > num * limit

\* limit > 0 and req / limit >= num / den   (the ratio is 0 when the limit is 0)
RatioAtLeast(req, limit, num, den) ==
    limit > 0 /\ req * den >= num * limit

\* max(ratio_1min, ratio_10min) >= num / den
MaxRatioAtLeast(req_1min, req_10min, lim, num, den) ==
    \/ RatioAtLeast(req_1min, lim.per_minute, num, den)
    \/ RatioAtLeast(req_10min, lim.per_10min, num, den)

\* variant: BASE * MULTIPLIER ** level
new_penalty_delay_level(level) ==
    Seconds(Min(BASE_PENALTY_SECONDS * Pow(PENALTY_MULTIPLIER, level),
                MAX_PENALTY_SECONDS))

\* delay of a violation at the (already incremented) stored level
new_penalty_delay(level) ==
    Seconds(Min(BASE_PENALTY_SECONDS * Pow(PENALTY_MULTIPLIER, level - 1),
                MAX_PENALTY_SECONDS))

\* variant: the level is not capped
escalate_uncapped(s, t) ==
    [s EXCEPT !.penalty_level = s.penalty_level + 1,
              !.last_violation_time = t]

\* the state change of a violation in check_rate_limit
escalate(s, t) ==
    [s EXCEPT !.penalty_level = Min(s.penalty_level + 1, PENALTY_LEVEL_CAP),
              !.last_violation_time = t]

\* the good-behaviour decrement at the end of check_rate_limit
\* variant: good behaviour never lowers the level
good_behavior_decay_never(s, t, violation, under_limit) == s

\* variant: the level also goes down while the rate is at or above the limit
good_behavior_decay_always(s, t, violation, under_limit) ==
    IF ~violation /\ s.penalty_level > 0
       /\ t - s.last_violation_time > GOOD_BEHAVIOR_SECONDS
    THEN [s EXCEPT !.penalty_level = Max(0, s.penalty_level - 1)]
    ELSE s

good_behavior_decay(s, t, violation, under_limit) ==
    IF ~violation /\ under_limit /\ s.penalty_level > 0
       /\ t - s.last_violation_time > GOOD_BEHAVIOR_SECONDS
    THEN [s EXCEPT !.penalty_level = Max(0, s.penalty_level - 1)]
    ELSE s

\* variant: a cap refuses only once it is exceeded
hard_cap_exceeded(s, lim) ==
    IF s.hourly_count > lim.per_hour THEN "hourly"
    ELSE IF s.daily_count > lim.per_day THEN "daily"
    ELSE "none"

\* variant: the daily cap is tested before the hourly one
hard_cap_daily_first(s, lim) ==
    IF s.daily_count >= lim.per_day THEN "daily"
    ELSE IF s.hourly_count >= lim.per_hour THEN "hourly"
    ELSE "none"

\* the hard caps of check_rate_limit: "hourly", "daily" or "none"
hard_cap(s, lim) ==
    IF s.hourly_count >= lim.per_hour THEN "hourly"
    ELSE IF s.daily_count >= lim.per_day THEN "daily"
    ELSE "none"

\* body of check_rate_limit after the disabled test: the state it was loaded
\* with, the instant, the limits; gives the final local state, the returned
\* triple and whether _save_state was reached.
check_decision(st, t, lim) ==
    LET pruned == [st EXCEPT
                     !.timestamps = prune_old_timestamps(st.timestamps, t)]
        state == reset_counters_if_needed(pruned, t)
        req_1min == count_requests_in_window(state.timestamps, MINUTE_WINDOW, t)
        req_10min == count_requests_in_window(state.timestamps, TEN_MINUTE_WINDOW, t)
        cap == hard_cap(state, lim)
        current_penalty == calculate_current_penalty(state, t)
        violation == MaxRatioAtLeast(req_1min, req_10min, lim,
                                     BURST_DELAY_THRESHOLD, 1)
        warning == MaxRatioAtLeast(req_1min, req_10min, lim,
                                   BURST_WARNING_NUM, BURST_WARNING_DEN)
        under_limit == ~MaxRatioAtLeast(req_1min, req_10min, lim, 1, 1)
        punished == escalate(state, t)
    IN IF cap # "none"
       THEN [state |-> state, allowed |-> FALSE, delay |-> ZeroDelay,
             message |-> cap, saved |-> FALSE]
       ELSE IF violation
       THEN [state |-> punished, allowed |-> TRUE,
             delay |-> new_penalty_delay(punished.penalty_level),
             message |-> "rate_limited", saved |-> TRUE]
       ELSE [state |-> good_behavior_decay(state, t, FALSE, under_limit),
             allowed |-> TRUE,
             delay |-> IF Positive(current_penalty) THEN current_penalty
                       ELSE ZeroDelay,
             message |-> IF warning
                         THEN (IF Positive(current_penalty)
                               THEN "warning_penalty" ELSE "warning")
                         ELSE IF Positive(current_penalty) THEN "cooldown"
                         ELSE "none",
             saved |-> TRUE]

\* variant: the hourly counter is bumped twice
record_update_twice(st, t) ==
    LET appended == [st EXCEPT
                       !.timestamps =
                          prune_old_timestamps(Append(st.timestamps, t), t)]
        state == reset_counters_if_needed(appended, t)
    IN [state EXCEPT !.hourly_count = state.hourly_count + 2,
                     !.daily_count = state.daily_count + 1,
                     !.last_request_time = t]

\* variant: last_request_time is not set
record_update_unstamped(st, t) ==
    LET appended == [st EXCEPT
                       !.timestamps =
                          prune_old_timestamps(Append(st.timestamps, t), t)]
        state == reset_counters_if_needed(appended, t)
    IN [state EXCEPT !.hourly_count = state.hourly_count + 1,
                     !.daily_count = state.daily_count + 1]

\* body of record_request after the disabled test
record_update(st, t) ==
    LET appended == [st EXCEPT
                       !.timestamps =
                          prune_old_timestamps(Append(st.timestamps, t), t)]
        state == reset_counters_if_needed(appended, t)
    IN [state EXCEPT !.hourly_count = state.hourly_count + 1,
                     !.daily_count = state.daily_count + 1,
                     !.last_request_time = t]

\* the dict get_rate_status returns (limits and the disabled flag are the
\* variables of the same names)
status_view(st, t) ==
    LET pruned == [st EXCEPT
                     !.timestamps = prune_old_timestamps(st.timestamps, t)]
        state == reset_counters_if_needed(pruned, t)
    IN [state |-> state,
        report |->
          [requests_1min |->
               count_requests_in_window(state.timestamps, MINUTE_WINDOW, t),
           requests_10min |->
               count_requests_in_window(state.timestamps, TEN_MINUTE_WINDOW, t),
           requests_hour |-> state.hourly_count,
           requests_day |-> state.daily_count,
           penalty_level |-> state.penalty_level,
           current_delay |-> calculate_current_penalty(state, t)]]

----------------------------------------------------------------------------
(* The calls *)

NoReport ==
    [requests_1min |-> 0, requests_10min |-> 0, requests_hour |-> 0,
     requests_day |-> 0, penalty_level |-> 0, current_delay |-> ZeroDelay]

Returned(op, allowed, delay, message, report) ==
    [op |-> op, allowed |-> allowed, delay |-> delay, message |-> message,
     report |-> report]

FreshHistory == [records |-> 0, spaced |-> TRUE]

\* one more record_request at instant t, after `records` earlier ones the
\* last of which was at last_request_time
NextHistory(h, st, t) ==
    [records |-> Min(h.records + 1, MaxCount),
     spaced |-> h.spaced /\ (h.records = 0
                             \/ t - st.last_request_time >= MINUTE_WINDOW)]

\* the limiter's use of STATE_FILE during one call
FileUse(op, loads, saves, raised, before, wiped) ==
    [op |-> op, loads |-> loads, saves |-> saves, raised |-> raised,
     before |-> before, wiped |-> wiped]

\* wiped.on: reset_rate_limiter deleted the file and nothing has written it
\* since; wiped.was: what it deleted
NotWiped == [on |-> FALSE, was |-> NoFile]

NoFileUse == FileUse("none", FALSE, FALSE, FALSE, NoFile, NotWiped)

\* an exception leaves the call: nothing is returned, nothing is written
Raised(op) ==
    /\ ret' = Returned("raised", FALSE, ZeroDelay, "none", NoReport)
    /\ io' = FileUse(op, TRUE, FALSE, TRUE, file, io.wiped)
    /\ UNCHANGED <<file, loaded, mem, hist>>

\* variant: the disable flag is not consulted
check_rate_limit_enabled(t) ==
    /\ now' = t
    /\ IF state_raises(file)
       THEN Raised("check")
       ELSE LET r == check_decision(load_state(file), t, limits)
            IN /\ loaded' = load_state(file)
               /\ ret' = Returned("check", r.allowed, r.delay, r.message, NoReport)
               /\ mem' = r.state
               /\ file' = IF r.saved THEN save_state(r.state) ELSE file
               /\ io' = FileUse("check", TRUE, r.saved, FALSE, file,
                                IF r.saved THEN NotWiped ELSE io.wiped)
               /\ UNCHANGED hist
    /\ UNCHANGED <<limits, disabled>>

check_rate_limit(t) ==
    /\ now' = t
    /\ IF disabled
       THEN /\ ret' = Returned("check", TRUE, ZeroDelay, "none", NoReport)
            /\ io' = FileUse("check", FALSE, FALSE, FALSE, file, io.wiped)
            /\ UNCHANGED <<file, loaded, mem, hist>>
       ELSE IF state_raises(file)
       THEN Raised("check")
       ELSE LET r == check_decision(load_state(file), t, limits)
            IN /\ loaded' = load_state(file)
               /\ ret' = Returned("check", r.allowed, r.delay, r.message, NoReport)
               /\ mem' = r.state
               /\ file' = IF r.saved THEN save_state(r.state) ELSE file
               /\ io' = FileUse("check", TRUE, r.saved, FALSE, file,
                                IF r.saved THEN NotWiped ELSE io.wiped)
               /\ UNCHANGED hist
    /\ UNCHANGED <<limits, disabled>>

record_request(t) ==
    /\ now' = t
    /\ IF disabled
       THEN /\ ret' = Returned("record", TRUE, ZeroDelay, "none", NoReport)
            /\ io' = FileUse("record", FALSE, FALSE, FALSE, file, io.wiped)
            /\ UNCHANGED <<file, loaded, mem, hist>>
       ELSE IF state_raises(file)
       THEN Raised("record")
       ELSE LET state == record_update(load_state(file), t)
            IN /\ ret' = Returned("record", TRUE, ZeroDelay, "none", NoReport)
               /\ loaded' = load_state(file)
               /\ mem' = state
               /\ file' = save_state(state)
               /\ io' = FileUse("record", TRUE, TRUE, FALSE, file, NotWiped)
               /\ hist' = NextHistory(hist, load_state(file), t)
    /\ UNCHANGED <<limits, disabled>>

\* variant: the normalised state is written back
get_rate_status_saving(t) ==
    /\ now' = t
    /\ IF state_raises(file)
       THEN Raised("status")
       ELSE LET v == status_view(load_state(file), t)
            IN /\ loaded' = load_state(file)
               /\ mem' = v.state
               /\ ret' = Returned("status", TRUE, ZeroDelay, "none", v.report)
               /\ io' = FileUse("status", TRUE, TRUE, FALSE, file, NotWiped)
               /\ file' = save_state(v.state)
               /\ UNCHANGED hist
    /\ UNCHANGED <<limits, disabled>>

get_rate_status(t) ==
    /\ now' = t
    /\ IF state_raises(file)
       THEN Raised("status")
       ELSE LET v == status_view(load_state(file), t)
            IN /\ loaded' = load_state(file)
               /\ mem' = v.state
               /\ ret' = Returned("status", TRUE, ZeroDelay, "none", v.report)
               /\ io' = FileUse("status", TRUE, FALSE, FALSE, file, io.wiped)
               /\ UNCHANGED <<file, hist>>
    /\ UNCHANGED <<limits, disabled>>

\* variant: the penalty is cleared and the recorded requests are kept
reset_rate_limiter_penalty ==
    /\ file' = save_state([load_state(file) EXCEPT !.penalty_level = 0])
    /\ ret' = Returned("reset", TRUE, ZeroDelay, "none", NoReport)
    /\ hist' = FreshHistory
    /\ io' = FileUse("reset", FALSE, FALSE, FALSE, file,
                    [on |-> TRUE, was |-> file])
    /\ UNCHANGED <<now, limits, disabled, loaded, mem>>

reset_rate_limiter ==
    /\ file' = NoFile
    /\ ret' = Returned("reset", TRUE, ZeroDelay, "none", NoReport)
    /\ hist' = FreshHistory
    /\ io' = FileUse("reset", FALSE, FALSE, FALSE, file,
                    [on |-> TRUE, was |-> file])
    /\ UNCHANGED <<now, limits, disabled, loaded, mem>>

\* the client shell between two calls
Idle ==
    [pc |-> "idle", mode |-> "none", checks |-> 0, allowed |-> TRUE,
     delay |-> ZeroDelay, slept |-> ZeroDelay, sent |-> 0,
     response |-> "none", records |-> 0, outcome |-> "none"]

\* main has not run
NoRun ==
    [branch |-> "none", checks |-> 0, records |-> 0, exit |-> 0]

\* the two workers of _parallel_search's ThreadPoolExecutor
Threads == {1, 2}

IdleThread ==
    [pc |-> "idle", at |-> 0, state |-> RateLimiterState, overlaid |-> FALSE]

NoThreads == [p \in Threads |-> IdleThread]

\* instants of the dual-mode calls, and the reset markers they can set
DualInstants == {0, 3600, 86400}

HourMarkers == {t + HOUR_WINDOW : t \in DualInstants}

DayMarkers == {t + DAY_WINDOW : t \in DualInstants}

\* entered: calls of make_mcp_request begun; hour[m], day[m]: record_request
\* calls that wrote a state whose hourly_reset (daily_reset) is m; calls:
\* network calls that succeeded since a call last moved the hourly marker
NoTally ==
    [entered |-> 0, hour |-> [m \in HourMarkers |-> 0],
     day |-> [m \in DayMarkers |-> 0], calls |-> 0]

\* Optional[str]: None, or a key
None == [some |-> FALSE, key |-> <<>>]

Some(k) == [some |-> TRUE, key |-> k]

\* the cache file of the API key: its content and its modification time
NoCacheFile == [exists |-> FALSE, content |-> <<>>, mtime |-> 0]

\* no key anywhere, nothing asked yet; an unset variable and a config
\* without a key are the empty string
NoKeys ==
    [env |-> <<>>, config |-> <<>>, cache |-> NoCacheFile, before |-> NoCacheFile,
     op |-> "none", got |-> None]

----------------------------------------------------------------------------
(* Sequential use: one call at a time, the clock never going back *)

Init ==
    /\ now = 0
    /\ limits \in Configurations
    /\ disabled = FALSE
    /\ file = NoFile
    /\ loaded = RateLimiterState
    /\ mem = RateLimiterState
    /\ ret = Returned("none", TRUE, ZeroDelay, "none", NoReport)
    /\ hist = FreshHistory
    /\ io = NoFileUse
    /\ client = Idle
    /\ cli = NoRun
    /\ threads = NoThreads
    /\ tally = NoTally
    /\ keys = NoKeys

Check ==
    \E t \in Instants :
        t >= now /\ check_rate_limit(t) /\ UNCHANGED <<client, cli, threads, tally, keys>>

Record ==
    \E t \in Instants :
        /\ t >= now
        /\ load_state(file).daily_count < MaxCount
        /\ record_request(t)
        /\ UNCHANGED <<client, cli, threads, tally, keys>>

Status ==
    \E t \in Instants :
        t >= now /\ get_rate_status(t) /\ UNCHANGED <<client, cli, threads, tally, keys>>

Reset == reset_rate_limiter /\ UNCHANGED <<client, cli, threads, tally, keys>>

Next == Check \/ Record \/ Status \/ Reset

Spec == Init /\ [][Next]_vars

----------------------------------------------------------------------------
(* The burst scenario: default limits, every call within one second *)

InitBurst ==
    /\ now = 0
    /\ limits = DefaultLimits
    /\ disabled = FALSE
    /\ file = NoFile
    /\ loaded = RateLimiterState
    /\ mem = RateLimiterState
    /\ ret = Returned("none", TRUE, ZeroDelay, "none", NoReport)
    /\ hist = FreshHistory
    /\ io = NoFileUse
    /\ client = Idle
    /\ cli = NoRun
    /\ threads = NoThreads
    /\ tally = NoTally
    /\ keys = NoKeys

BurstRecord ==
    \E t \in BurstInstants :
        /\ t >= now
        /\ Len(load_state(file).timestamps) < BurstMax
        /\ record_request(t)
        /\ UNCHANGED <<client, cli, threads, tally, keys>>

BurstCheck ==
    \E t \in BurstInstants :
        t >= now /\ check_rate_limit(t) /\ UNCHANGED <<client, cli, threads, tally, keys>>

NextBurst == BurstRecord \/ BurstCheck

SpecBurst == InitBurst /\ [][NextBurst]_vars

----------------------------------------------------------------------------
(* Properties.  In every state with ret.op = "check" (resp. "record",      *)
(* "status") and the limiter enabled, `loaded`, `mem`, `ret` and `now`     *)
(* all belong to that one call.                                            *)

CheckReturned == ret.op = "check" /\ ~disabled
RecordReturned == ret.op = "record" /\ ~disabled

\* the counters as check_rate_limit sees them after its reset-if-crossed step
AfterReset == reset_counters_if_needed(loaded, now)

\* C1: once hourly_count has reached limit/hour, a check made while
\* now < hourly_reset is refused; a check made at now >= hourly_reset resets
\* hourly_count to 0 and is not refused on account of the hourly cap.
C1_HourlyCapUntilReset ==
    CheckReturned =>
        /\ (loaded.hourly_count >= limits.per_hour /\ now < loaded.hourly_reset)
              => ~ret.allowed
        /\ (now >= loaded.hourly_reset)
              => (mem.hourly_count = 0 /\ ret.message # "hourly")

C1_Witness ==
    /\ CheckReturned
    /\ loaded.hourly_count >= limits.per_hour
    /\ now >= loaded.hourly_reset
    /\ ret.allowed
    /\ mem.hourly_count = 0

\* C2: check is refused exactly when, after the reset-if-crossed step,
\* hourly_count >= limit/hour or daily_count >= limit/day, and then the delay
\* is 0; no request ratio and no penalty level refuses a call.
C2_RefusedIffHardCap ==
    CheckReturned =>
        /\ ~ret.allowed <=> (\/ AfterReset.hourly_count >= limits.per_hour
                             \/ AfterReset.daily_count >= limits.per_day)
        /\ ~ret.allowed => ret.delay = ZeroDelay

C2_Witness ==
    /\ CheckReturned
    /\ ret.allowed
    /\ loaded.penalty_level = PENALTY_LEVEL_CAP
    /\ ret.message = "rate_limited"

\* C3 as stated: whenever daily_count has reached limit/day within the
\* current daily window, the next check is refused with the daily message.
C3_DailyMessageWhenever ==
    (CheckReturned /\ now < loaded.daily_reset
        /\ loaded.daily_count >= limits.per_day)
      => (~ret.allowed /\ ret.message = "daily")

\* C3 amended: such a check is always refused; its message is the daily one
\* when the hourly cap is not reached as well, and the hourly one otherwise.
C3_DailyRefusal ==
    (CheckReturned /\ now < loaded.daily_reset
        /\ loaded.daily_count >= limits.per_day)
      => /\ ~ret.allowed
         /\ ret.message =
              (IF AfterReset.hourly_count >= limits.per_hour
               THEN "hourly" ELSE "daily")

C3_Witness ==
    /\ CheckReturned
    /\ now < loaded.daily_reset
    /\ loaded.daily_count >= limits.per_day
    /\ ret.message = "daily"

\* C4 as stated: from fresh state, while the records made are spaced at least
\* one minute apart and number fewer than limit/hour, every check is allowed.
C4_SpacedRecordsNeverRefused ==
    (CheckReturned /\ hist.spaced /\ hist.records < limits.per_hour)
      => ret.allowed

\* C4 amended: from fresh state, while the records made are spaced at least
\* one minute apart and number fewer than limit/hour and fewer than limit/day,
\* every check is allowed.
C4_FewRecordsNeverRefused ==
    (CheckReturned /\ hist.spaced /\ hist.records < limits.per_hour
        /\ hist.records < limits.per_day)
      => ret.allowed

C4_Witness ==
    /\ CheckReturned
    /\ hist.spaced
    /\ hist.records > 0
    /\ hist.records + 1 = Min(limits.per_hour, limits.per_day)
    /\ ret.allowed

\* a call that loaded the state file: `loaded`, `mem` and `now` are its own
Loading == ret.op = "status" \/ CheckReturned \/ RecordReturned

\* records found in the file that were made after instant t
RecordsAfter(t) ==
    Cardinality({i \in 1..Len(loaded.timestamps) : loaded.timestamps[i] > t})

\* ceil(delay_ratio * limit/minute)
BurstSize == BURST_DELAY_THRESHOLD * limits.per_minute

\* the check saw max(ratio_1min, ratio_10min) >= delay_ratio
Violating ==
    \/ (limits.per_minute > 0
        /\ RecordsAfter(now - MINUTE_WINDOW)
             >= BURST_DELAY_THRESHOLD * limits.per_minute)
    \/ (limits.per_10min > 0
        /\ RecordsAfter(now - TEN_MINUTE_WINDOW)
             >= BURST_DELAY_THRESHOLD * limits.per_10min)

HardCapReached ==
    \/ AfterReset.hourly_count >= limits.per_hour
    \/ AfterReset.daily_count >= limits.per_day

\* C5 as stated: for any prior state, after ceil(delay_ratio * limit/minute)
\* or more records within 60 seconds the check is allowed with a delay > 0
\* and the stored penalty_level is one more than before.
C5_BurstAlwaysEscalates ==
    (CheckReturned /\ RecordsAfter(now - MINUTE_WINDOW) >= BurstSize)
      => /\ ret.allowed
         /\ Positive(ret.delay)
         /\ mem.penalty_level = loaded.penalty_level + 1

\* C5 amended: when the records were made less than 60 seconds before the
\* check and no hard cap is reached, the check is allowed with a delay > 0 and
\* the stored penalty_level is min(previous + 1, 10).
C5_BurstEscalates ==
    (CheckReturned /\ RecordsAfter(now - MINUTE_WINDOW) >= BurstSize
        /\ ~HardCapReached)
      => /\ ret.allowed
         /\ Positive(ret.delay)
         /\ mem.penalty_level
              = Min(loaded.penalty_level + 1, PENALTY_LEVEL_CAP)

C5_Witness ==
    /\ CheckReturned
    /\ RecordsAfter(now - MINUTE_WINDOW) >= BurstSize
    /\ ~HardCapReached
    /\ loaded.penalty_level \in 1..(PENALTY_LEVEL_CAP - 1)
    /\ mem.penalty_level = loaded.penalty_level + 1
    /\ Positive(ret.delay)

C7_PenaltyLevelBounded ==
    /\ load_state(file).penalty_level \in 0..PENALTY_LEVEL_CAP
    /\ mem.penalty_level \in 0..PENALTY_LEVEL_CAP
    /\ (CheckReturned /\ Violating /\ ~HardCapReached
          /\ loaded.penalty_level = PENALTY_LEVEL_CAP)
         => mem.penalty_level = PENALTY_LEVEL_CAP

C7_Witness ==
    /\ CheckReturned
    /\ Violating
    /\ ~HardCapReached
    /\ loaded.penalty_level = PENALTY_LEVEL_CAP
    /\ load_state(file).penalty_level = PENALTY_LEVEL_CAP

C9_NoStaleTimestamps ==
    /\ Loading =>
         \A i \in 1..Len(mem.timestamps) : now - mem.timestamps[i] <= 3600
    /\ ((CheckReturned /\ ret.allowed) \/ RecordReturned) =>
         \A i \in 1..Len(file.data.timestamps) :
             now - file.data.timestamps[i] <= 3600

C9_Witness ==
    /\ Loading
    /\ \E i \in 1..Len(loaded.timestamps) : now - loaded.timestamps[i] >= 3600
    /\ \E i \in 1..Len(mem.timestamps) : mem.timestamps[i] < now

\* C10: a record at instant now appends exactly one timestamp equal to now,
\* adds 1 to hourly_count and daily_count (counted from 0 when the window was
\* crossed at now), sets last_request_time = now and leaves penalty_level and
\* last_violation_time as they were.
C10_RecordEffect ==
    RecordReturned =>
      LET dropped == Len(loaded.timestamps) - RecordsAfter(now - 3600)
          n == Len(mem.timestamps)
      IN /\ n = Len(loaded.timestamps) - dropped + 1
         /\ mem.timestamps[n] = now
         /\ \A i \in 1..(n - 1) :
               mem.timestamps[i] = loaded.timestamps[dropped + i]
         /\ mem.hourly_count =
              (IF now >= loaded.hourly_reset THEN 0 ELSE loaded.hourly_count) + 1
         /\ mem.daily_count =
              (IF now >= loaded.daily_reset THEN 0 ELSE loaded.daily_count) + 1
         /\ mem.last_request_time = now
         /\ mem.penalty_level = loaded.penalty_level
         /\ mem.last_violation_time = loaded.last_violation_time
         /\ file = save_state(mem)

C10_Witness ==
    /\ RecordReturned
    /\ loaded.penalty_level > 0
    /\ loaded.hourly_count > 0
    /\ now >= loaded.hourly_reset
    /\ now < loaded.daily_reset
    /\ loaded.last_request_time < now
    /\ Len(mem.timestamps) <= Len(loaded.timestamps)

----------------------------------------------------------------------------
(* Persistence: what each operation reads from and writes to STATE_FILE.   *)

StatusReturned == io.op = "status" /\ ~io.raised

\* C11: get_rate_status never changes the persisted state: the file after
\* the call is the file before it, and _save_state is not called, even when
\* the call pruned timestamps or reset counters in the state it loaded.
C11_StatusLeavesFile ==
    StatusReturned => /\ file = io.before
                      /\ ~io.saves

C11_Witness ==
    /\ StatusReturned
    /\ file.kind = "object"
    /\ Len(mem.timestamps) < Len(loaded.timestamps)
    /\ mem.hourly_count < loaded.hourly_count
    /\ load_state(file) = loaded

----------------------------------------------------------------------------
(* The disable flag.  RATE_LIMITING_DISABLED is read from the environment  *)
(* when the module is imported, so it is fixed within a process; the state *)
(* file outlives the process, and the next one may run with the other      *)
(* setting.                                                                *)

\* a new process starts with NINJAEXA_NO_RATE_LIMIT set the other way
Restart ==
    /\ disabled' = ~disabled
    /\ ret' = Returned("none", TRUE, ZeroDelay, "none", NoReport)
    /\ io' = FileUse("none", FALSE, FALSE, FALSE, file, io.wiped)
    /\ UNCHANGED <<now, limits, file, loaded, mem, hist, client, cli, threads, tally, keys>>

InitFlag ==
    /\ now = 0
    /\ limits = ScaledLimits
    /\ disabled = FALSE
    /\ file = NoFile
    /\ loaded = RateLimiterState
    /\ mem = RateLimiterState
    /\ ret = Returned("none", TRUE, ZeroDelay, "none", NoReport)
    /\ hist = FreshHistory
    /\ io = NoFileUse
    /\ client = Idle
    /\ cli = NoRun
    /\ threads = NoThreads
    /\ tally = NoTally
    /\ keys = NoKeys

NextFlag == Check \/ Record \/ Restart

SpecFlag == InitFlag /\ [][NextFlag]_vars

\* C12: with the disable flag set, check_rate_limit returns (True, 0.0, None)
\* whatever the state file holds, and neither check_rate_limit nor
\* record_request reads or writes the state file.
C12_DisabledTouchesNothing ==
    (disabled /\ io.op \in {"check", "record"}) =>
        /\ ~io.loads
        /\ ~io.saves
        /\ ~io.raised
        /\ file = io.before
        /\ (io.op = "check" =>
              ret = Returned("check", TRUE, ZeroDelay, "none", NoReport))

\* a disabled check on a file whose state is at the hourly cap
C12_Witness ==
    /\ disabled
    /\ io.op = "check"
    /\ file.kind = "object"
    /\ hard_cap(reset_counters_if_needed(load_state(file), now), limits) = "hourly"
    /\ ret.allowed

----------------------------------------------------------------------------
(* Reset *)

\* C13: from any reachable state, reset_rate_limiter immediately followed by
\* get_rate_status reports requests_1min = requests_10min = requests_hour =
\* requests_day = 0, penalty_level = 0 and current_delay = 0.
C13_StatusAfterReset ==
    (StatusReturned /\ io.wiped.on) =>
        ret.report = [requests_1min |-> 0, requests_10min |-> 0,
                      requests_hour |-> 0, requests_day |-> 0,
                      penalty_level |-> 0, current_delay |-> ZeroDelay]

\* the reset deleted a file that held records and a penalty
C13_Witness ==
    /\ StatusReturned
    /\ file.kind = "absent"
    /\ io.wiped.on
    /\ io.wiped.was.kind = "object"
    /\ load_state(io.wiped.was).penalty_level > 0
    /\ load_state(io.wiped.was).daily_count > 0
    /\ count_requests_in_window(load_state(io.wiped.was).timestamps,
                                 MINUTE_WINDOW, now) > 0

----------------------------------------------------------------------------
(* Round trip through the state file: _save_state(s) then _load_state().   *)

\* timestamps beyond the 500 that to_dict keeps
RoundTripExtra == 2

RoundTripLengths ==
    {0, 1, SAVED_TIMESTAMPS - 1, SAVED_TIMESTAMPS, SAVED_TIMESTAMPS + 1,
     SAVED_TIMESTAMPS + RoundTripExtra}

\* states to save: every field differs from its default in some of them, and
\* the timestamps are all different, so that which ones are kept shows
RoundTripStates ==
    {[timestamps |-> [i \in 1..n |-> i],
      penalty_level |-> level,
      last_violation_time |-> violation,
      last_request_time |-> n,
      hourly_count |-> count,
      hourly_reset |-> hour,
      daily_count |-> count + 1,
      daily_reset |-> hour + DAY_WINDOW,
      version |-> version] :
        n \in RoundTripLengths, level \in {0, 3, PENALTY_LEVEL_CAP},
        violation \in {0, 7}, count \in {0, 4}, hour \in {0, HOUR_WINDOW},
        version \in {1, 2}}

InitRoundTrip ==
    /\ now = 0
    /\ limits = DefaultLimits
    /\ disabled = FALSE
    /\ file = NoFile
    /\ loaded = RateLimiterState
    /\ mem \in RoundTripStates
    /\ ret = Returned("none", TRUE, ZeroDelay, "none", NoReport)
    /\ hist = FreshHistory
    /\ io = NoFileUse
    /\ client = Idle
    /\ cli = NoRun
    /\ threads = NoThreads
    /\ tally = NoTally
    /\ keys = NoKeys

\* _save_state(mem)
SaveState ==
    /\ io.op = "none"
    /\ file' = save_state(mem)
    /\ io' = FileUse("save", FALSE, TRUE, FALSE, file, NotWiped)
    /\ UNCHANGED <<now, limits, disabled, loaded, mem, ret, hist, client, cli, threads, tally, keys>>

\* loaded = _load_state()
LoadState ==
    /\ io.op = "save"
    /\ loaded' = load_state(file)
    /\ io' = FileUse("load", TRUE, FALSE, FALSE, file, NotWiped)
    /\ UNCHANGED <<now, limits, disabled, file, mem, ret, hist, client, cli, threads, tally, keys>>

NextRoundTrip == SaveState \/ LoadState

SpecRoundTrip == InitRoundTrip /\ [][NextRoundTrip]_vars

\* C14: for every RateLimiterState s, saving s and loading it back gives a
\* state equal to s in penalty_level, last_violation_time, last_request_time,
\* hourly_count, hourly_reset, daily_count, daily_reset and version, whose
\* timestamps are exactly the last 500 entries of s.timestamps (all of them
\* when there are at most 500).
C14_RoundTrip ==
    io.op = "load" =>
      LET n == Len(mem.timestamps)
          k == Len(loaded.timestamps)
      IN /\ k = (IF n <= 500 THEN n ELSE 500)
         /\ \A i \in 1..k : loaded.timestamps[i] = mem.timestamps[n - k + i]
         /\ loaded.penalty_level = mem.penalty_level
         /\ loaded.last_violation_time = mem.last_violation_time
         /\ loaded.last_request_time = mem.last_request_time
         /\ loaded.hourly_count = mem.hourly_count
         /\ loaded.hourly_reset = mem.hourly_reset
         /\ loaded.daily_count = mem.daily_count
         /\ loaded.daily_reset = mem.daily_reset
         /\ loaded.version = mem.version

\* a state holding more than 500 timestamps came back without its oldest
C14_Witness ==
    /\ io.op = "load"
    /\ Len(mem.timestamps) > 500
    /\ Len(loaded.timestamps) = 500
    /\ loaded.timestamps[1] > mem.timestamps[1]
    /\ loaded.penalty_level > 0
    /\ loaded.version # 1

----------------------------------------------------------------------------
(* A state file that _save_state did not write.                            *)

\* something other than the limiter replaces the content of STATE_FILE; the
\* garbled text of the state that was there is one way of being malformed
Corrupt ==
    /\ file.kind = "object"
    /\ \/ file' = [kind |-> "malformed", data |-> file.data]
       \/ \E k \in FaultKinds : file' = [kind |-> k, data |-> NoFile.data]
    /\ ret' = Returned("none", TRUE, ZeroDelay, "none", NoReport)
    /\ io' = FileUse("none", FALSE, FALSE, FALSE, file, NotWiped)
    /\ hist' = FreshHistory
    /\ loaded' = RateLimiterState
    /\ mem' = RateLimiterState
    /\ UNCHANGED <<now, limits, disabled, client, cli, threads, tally, keys>>

NextFaults == Check \/ Record \/ Status \/ Corrupt

SpecFaults == InitFlag /\ [][NextFaults]_vars

\* what check_rate_limit does at `now` when there is no state file
FreshCheck == check_decision(RateLimiterState, now, limits)

\* C15: when the state file holds malformed JSON, check_rate_limit does not
\* raise, and it returns the same (allowed, delay, message) and writes the
\* same state as it would if no state file had ever existed.
C15_MalformedIsFresh ==
    (io.op = "check" /\ io.before.kind = "malformed") =>
        /\ ~io.raised
        /\ ret = Returned("check", FreshCheck.allowed, FreshCheck.delay,
                          FreshCheck.message, NoReport)
        /\ FreshCheck.saved
        /\ file = [kind |-> "object", data |-> to_dict(FreshCheck.state)]

\* the malformed text replaced a state that would have been refused
C15_Witness ==
    /\ io.op = "check"
    /\ io.before.kind = "malformed"
    /\ hard_cap(reset_counters_if_needed(from_dict(io.before.data), now),
                limits) # "none"
    /\ ret.allowed
    /\ file.kind = "object"

\* a call of check_rate_limit, record_request or get_rate_status that found
\* a state file no _save_state wrote, or none
OnBadFile ==
    /\ io.op \in {"check", "record", "status"}
    /\ io.loads
    /\ io.before.kind \in FaultKinds \cup {"absent"}

\* C16 as stated: for every kind of bad state file (missing, empty,
\* unreadable, JSON that is not an object, an object with fields of the
\* wrong type) check_rate_limit, record_request and get_rate_status complete
\* without raising and work on a state without history.
C16_BadFileIsNoHistory ==
    OnBadFile => /\ ~io.raised
                 /\ loaded = RateLimiterState

----------------------------------------------------------------------------
(* Load at the start, save at the end *)

\* an enabled check_rate_limit or record_request call that returned
LimiterReturned ==
    /\ io.op \in {"check", "record"}
    /\ ~disabled
    /\ ~io.raised

\* the state a call ends with is pruned and its counters are inside their
\* windows at `now`
Normalized(s) ==
    /\ \A i \in 1..Len(s.timestamps) : s.timestamps[i] > now - HOUR_WINDOW
    /\ now < s.hourly_reset
    /\ now < s.daily_reset

\* C17 as stated: every non-disabled check_rate_limit and record_request
\* call, whatever its outcome, loads the state at its start and writes the
\* pruned, reset-normalized state back to the file before returning.
C17_AlwaysSaved ==
    LimiterReturned => /\ io.loads
                       /\ io.saves
                       /\ Normalized(mem)
                       /\ file = save_state(mem)

----------------------------------------------------------------------------
(* The client shell (exa_common.py): make_mcp_request and                  *)
(* make_direct_api_request around their one urlopen call.  client.pc is    *)
(* the position in the call; sent, records, slept count what the call has  *)
(* done so far and start from nothing at every call.                       *)

Modes == {"mcp", "direct"}

\* what urlopen and the parsing of the body can give: "ok" is a body that
\* parses (an SSE line with result.content for MCP, JSON for the direct API)
Responses(mode) ==
    IF mode = "mcp"
    THEN {"ok", "network_error", "http_error", "timeout", "unparsable",
          "mcp_error"}
    ELSE {"ok", "network_error", "http_error", "timeout", "unparsable"}

\* entry of make_mcp_request / make_direct_api_request
make_request(mode) ==
    /\ client.pc \in {"idle", "done"}
    /\ client' = [Idle EXCEPT !.pc = "check", !.mode = mode]
    /\ UNCHANGED <<now, limits, disabled, file, loaded, mem, ret, hist, io>>

\* variant: a refusal is printed like a warning and the call goes on
apply_rate_limit_lenient(t) ==
    /\ client.pc = "check"
    /\ check_rate_limit(t)
    /\ client' =
         [client EXCEPT
            !.checks = @ + 1,
            !.allowed = ret'.allowed,
            !.delay = ret'.delay,
            !.pc = IF Positive(ret'.delay) THEN "sleep" ELSE "request"]

\* _apply_rate_limit up to the sleep: the check, the raise on a refusal
apply_rate_limit(t) ==
    /\ client.pc = "check"
    /\ check_rate_limit(t)
    /\ client' =
         [client EXCEPT
            !.checks = @ + 1,
            !.allowed = ret'.allowed,
            !.delay = ret'.delay,
            !.pc = IF ~ret'.allowed THEN "done"
                   ELSE IF Positive(ret'.delay) THEN "sleep"
                   ELSE "request",
            !.outcome = IF ~ret'.allowed THEN ret'.message ELSE "none"]

\* time.sleep(delay); the instants of the calls that follow are not
\* constrained further, which allows every wake-up time and more
apply_delay ==
    /\ client.pc = "sleep"
    /\ client' = [client EXCEPT !.slept = client.delay, !.pc = "request"]
    /\ UNCHANGED <<now, limits, disabled, file, loaded, mem, ret, hist, io>>

\* make_direct_api_request: get_api_key() gave nothing
api_key_missing ==
    /\ client.pc = "request"
    /\ client.mode = "direct"
    /\ client' = [client EXCEPT !.pc = "done", !.outcome = "no_api_key"]
    /\ UNCHANGED <<now, limits, disabled, file, loaded, mem, ret, hist, io>>

\* variant: the request is recorded whatever came back
urlopen_recording(response) ==
    /\ client.pc = "request"
    /\ client' =
         [client EXCEPT
            !.sent = @ + 1,
            !.response = response,
            !.pc = "record",
            !.outcome = "none"]
    /\ UNCHANGED <<now, limits, disabled, file, loaded, mem, ret, hist, io>>

\* urlopen, read, and the parsing of the body
urlopen(response) ==
    /\ client.pc = "request"
    /\ client' =
         [client EXCEPT
            !.sent = @ + 1,
            !.response = response,
            !.pc = IF response = "ok" THEN "record" ELSE "done",
            !.outcome = IF response = "ok" THEN "none" ELSE response]
    /\ UNCHANGED <<now, limits, disabled, file, loaded, mem, ret, hist, io>>

\* record_request() and the return of the result
record_success(t) ==
    /\ client.pc = "record"
    /\ record_request(t)
    /\ client' =
         [client EXCEPT
            !.records = @ + 1,
            !.pc = "done",
            !.outcome = "success"]

ClientCall ==
    /\ \E mode \in Modes : make_request(mode)
    /\ UNCHANGED <<cli, threads, tally, keys>>

ClientCheck ==
    /\ \E t \in Instants : t >= now /\ apply_rate_limit(t)
    /\ UNCHANGED <<cli, threads, tally, keys>>

ClientSleep ==
    /\ apply_delay
    /\ UNCHANGED <<cli, threads, tally, keys>>

ClientNoKey ==
    /\ api_key_missing
    /\ UNCHANGED <<cli, threads, tally, keys>>

ClientSend ==
    /\ \E response \in Responses(client.mode) : urlopen(response)
    /\ UNCHANGED <<cli, threads, tally, keys>>

ClientRecord ==
    /\ \E t \in Instants : t >= now /\ record_success(t)
    /\ UNCHANGED <<cli, threads, tally, keys>>

NextClient ==
    \/ ClientCall
    \/ ClientCheck
    \/ ClientSleep
    \/ ClientNoKey
    \/ ClientSend
    \/ ClientRecord

SpecClient == InitFlag /\ [][NextClient]_vars

\* the limiter's refusal messages
Refusals == {"hourly", "daily"}

\* C18: in the client shell every network request (MCP or direct API) is
\* preceded in the same call by a check_rate_limit that returned
\* allowed = true and, when its delay was > 0, by a sleep of that delay;
\* when check_rate_limit returns allowed = false no request is sent and the
\* call fails with the limiter's message.
C18_CheckedBeforeSent ==
    /\ client.sent > 0 =>
          /\ client.checks = 1
          /\ client.allowed
          /\ client.pc \in {"record", "done"}
          /\ client.slept = client.delay
    /\ client.pc \in {"sleep", "request", "record"} => client.allowed
    /\ ~client.allowed =>
          /\ client.checks = 1
          /\ client.sent = 0
          /\ client.pc = "done"
          /\ client.outcome \in Refusals
          /\ client.outcome = ret.message

\* a request that went out after a sleep of the penalty delay
C18_Witness ==
    /\ client.sent > 0
    /\ Positive(client.delay)
    /\ client.slept = client.delay
    /\ client.mode = "direct"

\* C19: the client shell calls record_request exactly once for a call whose
\* network request completed and parsed, and not at all for a call that
\* fails: network error, HTTP error, timeout, unparsable or error response,
\* missing API key, refusal by the limiter.
C19_RecordedIffSucceeded ==
    /\ client.records <= 1
    /\ client.pc = "done" =>
          client.records = (IF client.outcome = "success" THEN 1 ELSE 0)
    /\ client.outcome = "success" <=>
          (client.pc = "done" /\ client.sent = 1 /\ client.response = "ok")
    /\ client.records = 1 => ret.op = "record"

C19_Witness ==
    /\ client.pc = "done"
    /\ client.outcome = "success"
    /\ client.records = 1
    /\ Len(load_state(file).timestamps) > 1

----------------------------------------------------------------------------
(* get_rate_status: current_delay *)

\* C20 as stated: for every state and instant, the current_delay reported
\* by get_rate_status equals the delay check_rate_limit would return if it
\* were called at that instant on that state.
C20_StatusDelayIsCheckDelay ==
    StatusReturned =>
        ret.report.current_delay = check_decision(loaded, now, limits).delay

----------------------------------------------------------------------------
(* The limiter's command line: main() with --status, --reset, --test.      *)

\* --status is accepted and never looked at: status is what main does when
\* neither --reset nor --test is given
Arguments == [reset : BOOLEAN, test : BOOLEAN, status : BOOLEAN]

\* sys.exit(main()): the value main returns, 1 when an exception leaves it
ExitStatus(returned) == IF ret'.op = "raised" THEN 1 ELSE returned

\* variant: --test also records the request it tested for
main_counting(args, t) ==
    /\ IF args.reset
       THEN /\ reset_rate_limiter
            /\ cli' = [branch |-> "reset", checks |-> 0,
                       records |-> 0, exit |-> 0]
       ELSE IF args.test
       THEN /\ record_request(t)
            /\ cli' = [branch |-> "test", checks |-> 1,
                       records |-> 1,
                       exit |-> ExitStatus(IF ret'.allowed THEN 0 ELSE 1)]
       ELSE /\ get_rate_status(t)
            /\ cli' = [branch |-> "status", checks |-> 0,
                       records |-> 0, exit |-> ExitStatus(0)]
    /\ UNCHANGED <<client, threads, tally, keys>>

\* main: --reset is looked at first, then --test, and status is the default
main(args, t) ==
    /\ IF args.reset
       THEN /\ reset_rate_limiter
            /\ cli' = [branch |-> "reset", checks |-> 0,
                       records |-> 0, exit |-> 0]
       ELSE IF args.test
       THEN /\ check_rate_limit(t)
            /\ cli' = [branch |-> "test", checks |-> 1,
                       records |-> 0,
                       exit |-> ExitStatus(IF ret'.allowed THEN 0 ELSE 1)]
       ELSE /\ get_rate_status(t)
            /\ cli' = [branch |-> "status", checks |-> 0,
                       records |-> 0, exit |-> ExitStatus(0)]
    /\ UNCHANGED <<client, threads, tally, keys>>

Main ==
    \E args \in Arguments, t \in Instants :
        /\ t >= now
        /\ (args.reset => t = now)
        /\ main(args, t)

\* requests made by the client between two runs of the command line
CliRecord ==
    \E t \in Instants :
        /\ t >= now
        /\ load_state(file).daily_count < MaxCount
        /\ record_request(t)
        /\ cli' = NoRun
        /\ UNCHANGED <<client, threads, tally, keys>>

NextCli == Main \/ CliRecord

SpecCli == InitFlag /\ [][NextCli]_vars

\* main took its --test branch
TestRun == cli.branch = "test"

\* C21: the command line's --test performs exactly one check_rate_limit and
\* no record_request: no timestamp is added and hourly_count and daily_count
\* do not grow, in the state of the call and in the file; the exit status is
\* 0 exactly when the check returned allowed = true, and 1 otherwise.
C21_TestDoesNotCount ==
    TestRun =>
        /\ cli.checks = 1
        /\ cli.records = 0
        /\ io.op = "check"
        /\ Len(mem.timestamps) <= Len(loaded.timestamps)
        /\ mem.hourly_count <= loaded.hourly_count
        /\ mem.daily_count <= loaded.daily_count
        /\ Len(load_state(file).timestamps)
             <= Len(load_state(io.before).timestamps)
        /\ load_state(file).hourly_count <= load_state(io.before).hourly_count
        /\ load_state(file).daily_count <= load_state(io.before).daily_count
        /\ cli.exit \in {0, 1}
        /\ cli.exit = 0 <=> (ret.op = "check" /\ ret.allowed)

\* a --test run on a state at a hard cap: refused, exit status 1
C21_Witness ==
    /\ TestRun
    /\ ~ret.allowed
    /\ cli.exit = 1
    /\ loaded.hourly_count > 0
    /\ file = io.before

----------------------------------------------------------------------------
(* Decay of the penalty *)

\* C22 as stated: with stored penalty_level = L > 0 and no further
\* violation, exactly one decay period after last_violation_time the
\* effective level is L/2, and the delay is
\* base * multiplier^(effective_level - 1), capped at max_penalty.
\* (half_x is (L/2 - 1) in units of 1/DecayPeriod of a level.)
C22_LevelHalvedPerPeriod ==
    (/\ StatusReturned
     /\ loaded.penalty_level > 0
     /\ now - loaded.last_violation_time = DecayPeriod) =>
        LET half_x == (loaded.penalty_level * DecayPeriod) \div 2 - DecayPeriod
            k == IF half_x <= 0 THEN 0
                 ELSE (half_x + DecayPeriod - 1) \div DecayPeriod
        IN ret.report.current_delay =
             (IF half_x >= CAP_EXPONENT THEN Seconds(MAX_PENALTY_SECONDS)
              ELSE [sec |-> BASE_PENALTY_SECONDS * Pow(PENALTY_MULTIPLIER, k),
                    frac |-> k * DecayPeriod - half_x])

\* limits under which a burst that doubles limit/minute stays below
\* limit/10min, as with the defaults (2 * 15 < 60)
DecayLimits == [per_minute |-> 1, per_10min |-> 3, per_hour |-> 3, per_day |-> 4]

InitDecay ==
    /\ now = 0
    /\ limits = DecayLimits
    /\ disabled = FALSE
    /\ file = NoFile
    /\ loaded = RateLimiterState
    /\ mem = RateLimiterState
    /\ ret = Returned("none", TRUE, ZeroDelay, "none", NoReport)
    /\ hist = FreshHistory
    /\ io = NoFileUse
    /\ client = Idle
    /\ cli = NoRun
    /\ threads = NoThreads
    /\ tally = NoTally
    /\ keys = NoKeys

SpecDecay == InitDecay /\ [][Next]_vars

\* the check saw max(ratio_1min, ratio_10min) < 1.0
UnderLimit ==
    /\ (limits.per_minute > 0 =>
          RecordsAfter(now - MINUTE_WINDOW) < limits.per_minute)
    /\ (limits.per_10min > 0 =>
          RecordsAfter(now - TEN_MINUTE_WINDOW) < limits.per_10min)

\* C23 as stated: a non-refused check decrements the stored penalty_level by
\* exactly 1 if and only if no violation occurred in this call, ratio < 1.0,
\* penalty_level > 0 and at least 60 seconds have elapsed since
\* last_violation_time, so that the decrement happens at exactly 60 s;
\* otherwise, absent a violation, penalty_level is unchanged; the decrement
\* leaves last_violation_time as it was.
C23_DecrementFromSixty ==
    (CheckReturned /\ ret.allowed /\ ~Violating) =>
        LET due == /\ UnderLimit
                   /\ loaded.penalty_level > 0
                   /\ now - loaded.last_violation_time >= 60
        IN /\ mem.penalty_level =
                (IF due THEN loaded.penalty_level - 1
                 ELSE loaded.penalty_level)
           /\ mem.last_violation_time = loaded.last_violation_time

----------------------------------------------------------------------------
(* The decision ladder below the violation rung *)

\* limits under which the warning rung is reached below the hourly cap
LadderLimits == [per_minute |-> 1, per_10min |-> 2, per_hour |-> 4, per_day |-> 5]

InitLadder ==
    /\ now = 0
    /\ limits = LadderLimits
    /\ disabled = FALSE
    /\ file = NoFile
    /\ loaded = RateLimiterState
    /\ mem = RateLimiterState
    /\ ret = Returned("none", TRUE, ZeroDelay, "none", NoReport)
    /\ hist = FreshHistory
    /\ io = NoFileUse
    /\ client = Idle
    /\ cli = NoRun
    /\ threads = NoThreads
    /\ tally = NoTally
    /\ keys = NoKeys

SpecLadder == InitLadder /\ [][Next]_vars

\* the check saw BURST_WARNING_THRESHOLD <= max(ratio_1min, ratio_10min)
Warning ==
    \/ (limits.per_minute > 0
        /\ BURST_WARNING_DEN * RecordsAfter(now - MINUTE_WINDOW)
             >= BURST_WARNING_NUM * limits.per_minute)
    \/ (limits.per_10min > 0
        /\ BURST_WARNING_DEN * RecordsAfter(now - TEN_MINUTE_WINDOW)
             >= BURST_WARNING_NUM * limits.per_10min)

\* the delay outstanding from earlier violations when the check was made
OutstandingPenalty == calculate_current_penalty(loaded, now)

\* C24: on a non-refused check with ratio < delay_ratio: if ratio >=
\* warning_ratio a warning is emitted, penalty_level and last_violation_time
\* are unchanged and the delay is the outstanding current_penalty (0 if
\* none); else if current_penalty > 0 a cooldown message is emitted with
\* delay = current_penalty; else the delay is 0 and there is no message.
C24_DecisionLadder ==
    (CheckReturned /\ ret.allowed /\ ~Violating) =>
        IF Warning
        THEN /\ ret.message =
                  (IF Positive(OutstandingPenalty) THEN "warning_penalty"
                   ELSE "warning")
             /\ ret.delay = OutstandingPenalty
             /\ mem.penalty_level = loaded.penalty_level
             /\ mem.last_violation_time = loaded.last_violation_time
        ELSE IF Positive(OutstandingPenalty)
        THEN /\ ret.message = "cooldown"
             /\ ret.delay = OutstandingPenalty
        ELSE /\ ret.message = "none"
             /\ ret.delay = ZeroDelay

\* a warning with a penalty still outstanding, more than 60 s after the
\* violation
C24_Witness ==
    /\ CheckReturned
    /\ ret.allowed
    /\ ~Violating
    /\ Warning
    /\ Positive(ret.delay)
    /\ now - loaded.last_violation_time > GOOD_BEHAVIOR_SECONDS

----------------------------------------------------------------------------
(* Concurrent calls on the one state file, with no lock.  Each thread (a   *)
(* worker of _parallel_search, or a separate process) runs                 *)
(*    check_rate_limit -> urlopen -> record_request                        *)
(* and every step that touches the file is a step of its own: the load,    *)
(* open(STATE_FILE, 'w') which empties the file, and json.dump which fills *)
(* it.  A load that meets the emptied file gets JSONDecodeError and a      *)
(* fresh state.  When a thread dumps into a file another thread dumped     *)
(* into since this one opened it, the bytes of the two writes overlay:     *)
(* the result is this thread's JSON, or JSON followed by a remainder of    *)
(* the other, which does not parse.                                        *)

\* calls of make_mcp_request begun in a behaviour
MaxDualCalls == 4

DualLimits == [per_minute |-> 2, per_10min |-> 4, per_hour |-> 2, per_day |-> 3]

InitDual ==
    /\ now = 0
    /\ limits = DualLimits
    /\ disabled = FALSE
    /\ file = NoFile
    /\ loaded = RateLimiterState
    /\ mem = RateLimiterState
    /\ ret = Returned("none", TRUE, ZeroDelay, "none", NoReport)
    /\ hist = FreshHistory
    /\ io = NoFileUse
    /\ client = Idle
    /\ cli = NoRun
    /\ threads = NoThreads
    /\ tally = NoTally
    /\ keys = NoKeys

Emptied == [kind |-> "empty", data |-> NoFile.data]

Garbled == [kind |-> "malformed", data |-> NoFile.data]

\* network calls counted since the hourly marker last moved: a load at t
\* that finds t >= hourly_reset starts a new window
CallsAfterLoad(t) ==
    IF t >= load_state(file).hourly_reset THEN 0 ELSE tally.calls

\* check_rate_limit up to the decision: time.time(), _load_state, lines
\* 209-279; a refusal makes _apply_rate_limit raise and the call is over
thread_check_load(p, t) ==
    /\ threads[p].pc = "idle"
    /\ tally.entered < MaxDualCalls
    /\ now' = t
    /\ LET r == check_decision(load_state(file), t, limits)
       IN threads' =
            [threads EXCEPT
               ![p] = [pc |-> IF r.saved THEN "check_open" ELSE "idle",
                       at |-> t, state |-> r.state, overlaid |-> FALSE]]
    /\ tally' = [tally EXCEPT !.entered = @ + 1, !.calls = CallsAfterLoad(t)]
    /\ UNCHANGED <<limits, disabled, file, loaded, mem, ret, hist, io, client,
                   cli, keys>>

\* _save_state: open(STATE_FILE, 'w')
thread_open(p) ==
    /\ threads[p].pc \in {"check_open", "record_open"}
    /\ file' = Emptied
    /\ threads' =
         [threads EXCEPT
            ![p].pc = IF @ = "check_open" THEN "check_dump" ELSE "record_dump",
            ![p].overlaid = FALSE]
    /\ UNCHANGED <<now, limits, disabled, loaded, mem, ret, hist, io, client,
                   cli, tally, keys>>

\* what json.dump leaves in the file
Dumped(p) ==
    IF threads[p].overlaid
    THEN {save_state(threads[p].state), Garbled}
    ELSE {save_state(threads[p].state)}

\* every other thread that has the file open now writes over these bytes
Overlay(p, pc) ==
    [q \in Threads |->
       IF q = p THEN [threads[p] EXCEPT !.pc = pc, !.overlaid = FALSE]
       ELSE IF threads[q].pc \in {"check_dump", "record_dump"}
       THEN [threads[q] EXCEPT !.overlaid = TRUE]
       ELSE threads[q]]

\* _save_state at the end of check_rate_limit: json.dump
thread_check_dump(p) ==
    /\ threads[p].pc = "check_dump"
    /\ file' \in Dumped(p)
    /\ threads' = Overlay(p, "request")
    /\ UNCHANGED <<now, limits, disabled, loaded, mem, ret, hist, io, client,
                   cli, tally, keys>>

\* urlopen and the parsing of the body: on "ok" record_request is next
thread_urlopen(p, response) ==
    /\ threads[p].pc = "request"
    /\ threads' =
         [threads EXCEPT
            ![p].pc = IF response = "ok" THEN "record_load" ELSE "idle"]
    /\ tally' =
         [tally EXCEPT !.calls = IF response = "ok" THEN @ + 1 ELSE @]
    /\ UNCHANGED <<now, limits, disabled, file, loaded, mem, ret, hist, io,
                   client, cli, keys>>

\* record_request up to _save_state: time.time(), _load_state, lines 295-306
thread_record_load(p, t) ==
    /\ threads[p].pc = "record_load"
    /\ now' = t
    /\ threads' =
         [threads EXCEPT
            ![p] = [pc |-> "record_open", at |-> t,
                    state |-> record_update(load_state(file), t),
                    overlaid |-> FALSE]]
    /\ tally' = [tally EXCEPT !.calls = CallsAfterLoad(t)]
    /\ UNCHANGED <<limits, disabled, file, loaded, mem, ret, hist, io, client,
                   cli, keys>>

\* _save_state at the end of record_request: json.dump
thread_record_dump(p) ==
    /\ threads[p].pc = "record_dump"
    /\ file' \in Dumped(p)
    /\ threads' = Overlay(p, "idle")
    /\ tally' =
         [tally EXCEPT
            !.hour[threads[p].state.hourly_reset] = @ + 1,
            !.day[threads[p].state.daily_reset] = @ + 1]
    /\ UNCHANGED <<now, limits, disabled, loaded, mem, ret, hist, io, client,
                   cli, keys>>

DualCheckLoad ==
    \E p \in Threads, t \in DualInstants : t >= now /\ thread_check_load(p, t)

DualOpen == \E p \in Threads : thread_open(p)

DualCheckDump == \E p \in Threads : thread_check_dump(p)

DualRequest ==
    \E p \in Threads, response \in Responses("mcp") : thread_urlopen(p, response)

DualRecordLoad ==
    \E p \in Threads, t \in DualInstants : t >= now /\ thread_record_load(p, t)

DualRecordDump == \E p \in Threads : thread_record_dump(p)

NextDual ==
    \/ DualCheckLoad
    \/ DualOpen
    \/ DualCheckDump
    \/ DualRequest
    \/ DualRecordLoad
    \/ DualRecordDump

SpecDual == InitDual /\ [][NextDual]_vars

\* C25: under any interleaving of the load and save steps of concurrent
\* check_rate_limit and record_request calls on the one state file, lost
\* updates only under-count: the hourly_count and daily_count in the file
\* never exceed the number of record_request calls made in the window the
\* file's reset marker stands for.
C25_LostUpdatesUnderCount ==
    file.kind = "object" =>
        /\ file.data.hourly_count <= tally.hour[file.data.hourly_reset]
        /\ file.data.daily_count <= tally.day[file.data.daily_reset]

\* two records were made in the window and the file counts one
C25_Witness ==
    /\ file.kind = "object"
    /\ file.data.hourly_count = 1
    /\ tally.hour[file.data.hourly_reset] = 2
    /\ file.data.daily_count < tally.day[file.data.daily_reset]
    /\ \A p \in Threads : threads[p].pc = "idle"

\* C26 as stated: in dual mode, two threads each running check -> network
\* call -> record on the same state file with no lock, the number of
\* successful network calls made between two consecutive hourly resets
\* never exceeds limit/hour.
C26_DualHardCap == tally.calls <= limits.per_hour

----------------------------------------------------------------------------
(* Recovery: requests stop, the clock moves on, checks keep being made.    *)

\* the last instant lies beyond every reset marker and decay period that a
\* call at the earlier ones can set
RecoverInstants == {0, 60, 661, 2 * DAY_WINDOW}

RequestInstants == {0, 60}

RecoverRecord ==
    \E t \in RequestInstants :
        /\ t >= now
        /\ load_state(file).daily_count < MaxCount
        /\ record_request(t)
        /\ UNCHANGED <<client, cli, threads, tally, keys>>

RecoverCheck ==
    \E t \in RecoverInstants :
        /\ t >= now
        /\ check_rate_limit(t)
        /\ UNCHANGED <<client, cli, threads, tally, keys>>

NextRecover == RecoverRecord \/ RecoverCheck

\* checks keep being made while time passes
SpecRecover ==
    InitFlag /\ [][NextRecover]_vars /\ WF_vars(RecoverCheck)

StoredLevel == load_state(file).penalty_level

\* a check that saw no violation, made penalty_level decay periods or more
\* after the last violation, returns delay 0; the level rises only in a
\* check that sees a violation
RecoveredDelay ==
    /\ (/\ CheckReturned
        /\ ~Violating
        /\ now - loaded.last_violation_time
             >= loaded.penalty_level * DecayPeriod) => ret.delay = ZeroDelay
    /\ (CheckReturned /\ ~(Violating /\ ret.allowed)) =>
          mem.penalty_level <= loaded.penalty_level
    /\ RecordReturned => mem.penalty_level = loaded.penalty_level

----------------------------------------------------------------------------
(* The API key: environment, 24-hour cache file, config files.             *)

API_KEY_CACHE_HOURS == 24

MaxKeyLen == 1

\* the characters the config search accepts in a key: [a-zA-Z0-9_-]
KeyChars == {"k", "-"}

Whitespace == {" "}

\* the keys the config search can find, and so the keys that get cached
FoundKeys == UNION {[1..n -> KeyChars] : n \in 1..MaxKeyLen}

KeyInstants == {0, 86399, 86400, 172800}

RECURSIVE lstrip(_)
lstrip(text) ==
    IF text # <<>> /\ Head(text) \in Whitespace THEN lstrip(Tail(text)) ELSE text

RECURSIVE rstrip(_)
rstrip(text) ==
    IF text # <<>> /\ text[Len(text)] \in Whitespace
    THEN rstrip(SubSeq(text, 1, Len(text) - 1))
    ELSE text

strip(text) == rstrip(lstrip(text))

\* variant: the cache still counts at exactly 24 hours
read_cached_key_late(cache_file, t) ==
    IF ~cache_file.exists THEN None
    ELSE IF t - cache_file.mtime > API_KEY_CACHE_HOURS * HOUR_WINDOW THEN None
    ELSE LET cached_key == strip(cache_file.content)
         IN IF cached_key # <<>> THEN Some(cached_key) ELSE None

read_cached_key(cache_file, t) ==
    IF ~cache_file.exists THEN None
    ELSE IF t - cache_file.mtime >= API_KEY_CACHE_HOURS * HOUR_WINDOW THEN None
    ELSE LET cached_key == strip(cache_file.content)
         IN IF cached_key # <<>> THEN Some(cached_key) ELSE None

write_cached_key(key, t) == [exists |-> TRUE, content |-> key, mtime |-> t]

\* the bash files, then the PowerShell profiles: the first key found
search_files_for_key(config) == IF config # <<>> THEN Some(config) ELSE None

\* the key returned, and the cache file left behind
get_api_key(env, cache_file, config, t) ==
    IF env # <<>> THEN [got |-> Some(env), cache |-> cache_file]
    ELSE LET cached_key == read_cached_key(cache_file, t)
             found_key == search_files_for_key(config)
         IN IF cached_key.some THEN [got |-> cached_key, cache |-> cache_file]
            ELSE IF found_key.some
                 THEN [got |-> found_key,
                       cache |-> write_cached_key(found_key.key, t)]
                 ELSE [got |-> None, cache |-> cache_file]

LimiterUntouched ==
    UNCHANGED <<limits, disabled, file, loaded, mem, ret, hist, io, client,
                cli, threads, tally>>

\* the process is started with or without EXA_API_KEY
SetEnvironment ==
    \E e \in FoundKeys \cup {<<>>} :
        /\ keys.env # e
        /\ keys' = [keys EXCEPT !.env = e, !.op = "none", !.got = None,
                                !.before = keys.cache]
        /\ UNCHANGED now
        /\ LimiterUntouched

\* the user puts a key into, or takes it out of, the config files
EditConfig ==
    \E c \in FoundKeys \cup {<<>>} :
        /\ keys.config # c
        /\ keys' = [keys EXCEPT !.config = c, !.op = "none", !.got = None,
                                !.before = keys.cache]
        /\ UNCHANGED now
        /\ LimiterUntouched

WriteCachedKey ==
    \E k \in FoundKeys, t \in KeyInstants :
        /\ t >= now
        /\ now' = t
        /\ keys' = [keys EXCEPT !.cache = write_cached_key(k, t),
                                !.before = keys.cache,
                                !.op = "write", !.got = None]
        /\ LimiterUntouched

ReadCachedKey ==
    \E t \in KeyInstants :
        /\ t >= now
        /\ now' = t
        /\ keys' = [keys EXCEPT !.before = keys.cache, !.op = "read",
                                !.got = read_cached_key(keys.cache, t)]
        /\ LimiterUntouched

GetApiKey ==
    \E t \in KeyInstants :
        /\ t >= now
        /\ now' = t
        /\ LET out == get_api_key(keys.env, keys.cache, keys.config, t)
           IN keys' = [keys EXCEPT !.cache = out.cache, !.before = keys.cache,
                                   !.op = "get", !.got = out.got]
        /\ LimiterUntouched

NextKeys ==
    SetEnvironment \/ EditConfig \/ WriteCachedKey \/ ReadCachedKey \/ GetApiKey

SpecKeys == InitFlag /\ [][NextKeys]_vars

\* the cache file as the call found it: younger than 24 hours, or not
CacheYoung ==
    /\ keys.before.exists
    /\ now - keys.before.mtime < API_KEY_CACHE_HOURS * HOUR_WINDOW

CacheOld ==
    /\ keys.before.exists
    /\ now - keys.before.mtime >= API_KEY_CACHE_HOURS * HOUR_WINDOW

\* C28: the key last written by _write_cached_key comes back unchanged from
\* _read_cached_key, and from get_api_key when EXA_API_KEY is not set, while
\* the cache file is younger than 24 hours; from 24 hours on the cache read
\* returns nothing and get_api_key returns what the config search finds; a
\* key in the environment is returned whatever the cache holds.
C28_KeyCache ==
    /\ (keys.op = "read" /\ CacheYoung) => keys.got = Some(keys.before.content)
    /\ (keys.op = "read" /\ CacheOld) => keys.got = None
    /\ (keys.op = "get" /\ keys.env = <<>> /\ CacheYoung) =>
          keys.got = Some(keys.before.content)
    /\ (keys.op = "get" /\ keys.env = <<>> /\ CacheOld) =>
          keys.got = search_files_for_key(keys.config)
    /\ (keys.op = "get" /\ keys.env # <<>>) => keys.got = Some(keys.env)

\* get_api_key at exactly 24 hours: the cached key is passed over for the
\* different key of the config files
C28_Witness ==
    /\ keys.op = "get"
    /\ keys.env = <<>>
    /\ keys.before.exists
    /\ now - keys.before.mtime = API_KEY_CACHE_HOURS * HOUR_WINDOW
    /\ keys.config # <<>>
    /\ keys.config # keys.before.content
    /\ keys.got = Some(keys.config)

----------------------------------------------------------------------------
(* The client protocol, one call at a time: every record_request() follows *)
(* a check_rate_limit() that allowed the call (SpecClient).                *)

Persisted == load_state(file)

\* C29: under the client protocol, calls one at a time, every persisted
\* state has hourly_count <= limit/hour and daily_count <= limit/day,
\* whatever the instants of the checks and of the records that follow them.
C29_CountsWithinCaps ==
    file.kind = "object" =>
        /\ Persisted.hourly_count <= limits.per_hour
        /\ Persisted.daily_count <= limits.per_day

\* a record made in a later hour than its check, which had found room for
\* one more call in the hour
C29_Witness ==
    /\ RecordReturned
    /\ client.pc = "done"
    /\ client.records = 1
    /\ file.kind = "object"
    /\ Persisted.daily_count = limits.per_hour
    /\ Persisted.hourly_count = 1
    /\ loaded.hourly_count = limits.per_hour - 1
    /\ now >= loaded.hourly_reset

\* an override with room in the day for several full hours
ProtocolLimits ==
    [per_minute |-> 1, per_10min |-> 2, per_hour |-> 3, per_day |-> 7]

InitProtocol ==
    /\ now = 0
    /\ limits = ProtocolLimits
    /\ disabled = FALSE
    /\ file = NoFile
    /\ loaded = RateLimiterState
    /\ mem = RateLimiterState
    /\ ret = Returned("none", TRUE, ZeroDelay, "none", NoReport)
    /\ hist = FreshHistory
    /\ io = NoFileUse
    /\ client = Idle
    /\ cli = NoRun
    /\ threads = NoThreads
    /\ tally = NoTally
    /\ keys = NoKeys

SpecProtocol == InitProtocol /\ [][NextClient]_vars

\* the timestamps of the state a call ended with, still inside the hour
InsideHour == prune_old_timestamps(mem.timestamps, now)

\* C30: under the client protocol, calls one at a time, the state holds at
\* most 2 * limit/hour timestamps after pruning, so with the default limits
\* the cut to the last 500 timestamps on save drops no timestamp that is
\* still inside the 1-hour window.
C30_TimestampsBounded ==
    /\ Len(mem.timestamps) <= 2 * limits.per_hour
    /\ file.kind = "object" =>
          Len(Persisted.timestamps) <= 2 * limits.per_hour
    /\ 2 * DefaultLimits.per_hour <= SAVED_TIMESTAMPS
    /\ (io.saves /\ file.kind = "object") =>
          Persisted.timestamps = InsideHour

\* two full hours' worth of calls inside one sliding hour
C30_Witness ==
    /\ RecordReturned
    /\ client.pc = "done"
    /\ file.kind = "object"
    /\ Len(Persisted.timestamps) = 2 * limits.per_hour
    /\ Persisted.hourly_count = limits.per_hour
    /\ Persisted.timestamps = InsideHour

====
